---- MODULE Spec2Model ----
(***************************************************************************)
(* compose-scheduler: the scheduler core (Run, runJob, runTask), the two   *)
(* execution strategies (runService, execService) and the HTTP notifier    *)
(* (Notify), as a state machine.  One cron engine dispatches one goroutine *)
(* per trigger firing; every goroutine is a "callback" below.              *)
(***************************************************************************)
EXTENDS Integers, Sequences, FiniteSets, TLC

\* ------------------------------------------------------------------ bounds
\* Total number of trigger firings (callback goroutines) the engine makes.
MaxFirings == 2
\* --notify.retries is drawn from 0..MaxRetries.
MaxRetries == 2
\* --notify.retries is drawn from 0..MaxLiveRetries where liveness is checked.
MaxLiveRetries == 1
\* Exit / status codes reported by the runtime are drawn from 0..MaxStatus.
MaxStatus == 1

Callbacks == 1..MaxFirings
StatusCodes == 0..MaxStatus

\* ------------------------------------------------------------- error values
\* A Go error is nil or carries a text; a text is the format string of the
\* fmt.Errorf call with its arguments (service, code, wrapped cause).
Text(f, s, n, w) == [fmt |-> f, service |-> s, code |-> n, cause |-> w]
EmptyText == Text("", "", 0, "")
nil == [isNil |-> TRUE, text |-> EmptyText]
Errorf(f, s, n, w) == [isNil |-> FALSE, text |-> Text(f, s, n, w)]
Error(e) == e.text

\* ctx.Err() once the context is cancelled, and what the Docker client
\* returns for a call that fails: a daemon/transport error or, once the
\* ambient context is cancelled, the context's error.
Canceled == Errorf("context canceled", "", 0, "")
ErrAllAttemptsFailed == Errorf("all attempts failed", "", 0, "")
ErrTaskIsRunning == Errorf("task is running", "", 0, "")
ClientErrors(done) == {"daemon error"} \cup (IF done THEN {"context canceled"} ELSE {})

\* ------------------------------------------------------------ configuration
NULL == "nil"
\* A variable that holds an error or a Payload before it is assigned.
Unset == [unset |-> TRUE]
Project == "compose-project"
URLs == {"", "http://sink/hook"}

\* A schedule is a cron expression that the engine's parser accepts
\* ("@daily", "* * * * *") or rejects ("every day", the empty string).
ParseStandard(s) == s \in {"@daily", "* * * * *"}
Task(svc, id, sched, cmd, logs) ==
    [Service |-> svc, Container |-> id, Schedule |-> sched, Command |-> cmd, logging |-> logs]

\* ---------------------------------------------------------------- discovery
composeProjectLabel == "com.docker.compose.project"
composeServiceLabel == "com.docker.compose.service"
schedulerLabel == "net.reddec.scheduler.cron"
commandLabel == "net.reddec.scheduler.exec"
logsLabel == "net.reddec.scheduler.logs"
LabelKeys == {composeProjectLabel, composeServiceLabel, schedulerLabel, commandLabel, logsLabel}

\* A container of the runtime: its ID and its label map (a function from
\* the labels it carries to their values).  NoLabel marks, in the arguments
\* of LabelsOf only, a label the container does not carry.
NoLabel == "<no label>"
LabelsOf(p, s, sch, cmd, logs) ==
    LET all == [k \in LabelKeys |->
                    CASE k = composeProjectLabel -> p
                      [] k = composeServiceLabel -> s
                      [] k = schedulerLabel -> sch
                      [] k = commandLabel -> cmd
                      [] k = logsLabel -> logs]
    IN  [k \in {x \in LabelKeys : all[x] # NoLabel} |-> all[k]]
Unit(id, labels) == [ID |-> id, Labels |-> labels]

\* c.Labels[key]: the value, or the empty string for a missing key.
Lookup(labels, key) == IF key \in DOMAIN labels THEN labels[key] ELSE ""

\* A list filter that leaves the project out.
MatchesAnyProject(u, project) ==
    /\ composeServiceLabel \in DOMAIN u.Labels
    /\ schedulerLabel \in DOMAIN u.Labels

\* The filters of the ContainerList call as the daemon applies them:
\* "label=key=value" asks for the label with that value, "label=key" for
\* the label with any value, the empty one included.
MatchesFilters(u, project) ==
    /\ composeProjectLabel \in DOMAIN u.Labels
    /\ u.Labels[composeProjectLabel] = project
    /\ composeServiceLabel \in DOMAIN u.Labels
    /\ schedulerLabel \in DOMAIN u.Labels

\* ContainerList with All: true: every container that matches, in order.
ContainerList(us, project) == SelectSeq(us, LAMBDA u : MatchesFilters(u, project))

\* The characters of the command labels used here; a piece of several
\* letters stands for a run of ordinary characters.
Runes(v) ==
    CASE v = "" -> << >>
      [] v = " " -> << " " >>
      [] v = "''" -> << "'", "'" >>
      [] v = "nginx -s reload" -> << "nginx", " ", "-s", " ", "reload" >>
      [] v = "sh -c 'echo hi'" -> << "sh", " ", "-c", " ", "'", "echo", " ", "hi", "'" >>
      [] v = "sh -c 'echo hi" -> << "sh", " ", "-c", " ", "'", "echo", " ", "hi" >>

\* shellquote.Split on characters that are blanks, single quotes or
\* ordinary: blanks separate words, a single-quoted stretch belongs to the
\* word as it is, a quote that is not closed is an error.
splitChars == {" "}
singleChar == "'"
RECURSIVE splitWord(_, _, _)
splitWord(mode, word, input) ==
    IF mode = "raw"
    THEN IF input = << >> THEN [err |-> FALSE, word |-> word, rest |-> << >>]
         ELSE IF Head(input) = singleChar THEN splitWord("single", word, Tail(input))
         ELSE IF Head(input) \in splitChars THEN [err |-> FALSE, word |-> word, rest |-> Tail(input)]
         ELSE splitWord("raw", Append(word, Head(input)), Tail(input))
    ELSE IF input = << >> THEN [err |-> TRUE, word |-> << >>, rest |-> << >>]
         ELSE IF Head(input) = singleChar THEN splitWord("raw", word, Tail(input))
         ELSE splitWord("single", Append(word, Head(input)), Tail(input))
RECURSIVE splitFrom(_, _)
splitFrom(words, input) ==
    IF input = << >> THEN [err |-> FALSE, words |-> words]
    ELSE IF Head(input) \in splitChars THEN splitFrom(words, Tail(input))
    ELSE LET w == splitWord("raw", << >>, input)
         IN  IF w.err THEN [err |-> TRUE, words |-> << >>]
             ELSE splitFrom(Append(words, w.word), w.rest)
Split(input) == splitFrom(<< >>, input)

\* strconv.ParseBool
ParseBool(str) ==
    IF str \in {"1", "t", "T", "TRUE", "true", "True"} THEN [err |-> FALSE, value |-> TRUE]
    ELSE IF str \in {"0", "f", "F", "FALSE", "false", "False"} THEN [err |-> FALSE, value |-> FALSE]
    ELSE [err |-> TRUE, value |-> FALSE]

\* The loop of listTasks over the listed containers: one Task appended per
\* container; the first command label that does not parse ends it with an
\* error and no tasks.
RECURSIVE listFrom(_, _)
listFrom(list, ans) ==
    IF list = << >> THEN [tasks |-> ans, err |-> nil]
    ELSE LET c == Head(list)
             service == Lookup(c.Labels, composeServiceLabel)
             v == Lookup(c.Labels, commandLabel)
             cmd == IF v # "" THEN Split(Runes(v)) ELSE [err |-> FALSE, words |-> << >>]
             parsed == ParseBool(Lookup(c.Labels, logsLabel))
             isLoggingEnabled == IF parsed.err THEN FALSE ELSE parsed.value
         IN  IF cmd.err
             THEN [tasks |-> << >>,
                   err |-> Errorf("parse command in service %s: %w", service, 0, "Unterminated single-quoted string")]
             ELSE listFrom(Tail(list),
                           Append(ans, Task(service, c.ID, Lookup(c.Labels, schedulerLabel), cmd.words, isLoggingEnabled)))
listTasks(us, project) == listFrom(ContainerList(us, project), << >>)

\* The containers of the README's compose file: service web carries an
\* exec label (exec strategy, with or without logging), service date
\* carries none (run strategy); a schedule is valid or not.
ComposeUnitLists ==
    { << Unit("c-web", LabelsOf(Project, "web", s1, "nginx -s reload", l)),
         Unit("c-date", LabelsOf(Project, "date", s2, NoLabel, NoLabel)) >> :
        s1 \in {"@daily", "every day"}, s2 \in {"* * * * *", "every day"}, l \in {NoLabel, "true"} }

\* Containers of any kind, for discovery alone: in or out of the project,
\* with or without the service label, with a schedule label that is
\* missing, empty or set, with a command label that is missing, empty,
\* blank, plain, quoted or malformed, with a logs label that is missing,
\* a boolean or not one.
MaxUnits == 2
ScopeChoices ==
    { << Project, "web", "@daily" >>, << Project, "web", "" >>, << Project, "web", NoLabel >>,
      << "other-project", "web", "@daily" >>, << NoLabel, "web", "@daily" >>, << Project, NoLabel, "@daily" >> }
CommandChoices ==
    ({"", " ", "''", "nginx -s reload", "sh -c 'echo hi'", "sh -c 'echo hi", NoLabel} \X {NoLabel})
        \cup ({NoLabel, "nginx -s reload"} \X {"true", "yes", "0"})
LabelChoices ==
    { LabelsOf(sc[1], sc[2], sc[3], cm[1], cm[2]) : sc \in ScopeChoices, cm \in CommandChoices }
UnitLists ==
    UNION { { [i \in 1..n |-> Unit(ToString(i), f[i])] : f \in [1..n -> LabelChoices] } : n \in 0..MaxUnits }

VARIABLES
    config,        \* main's config.Notify: [URL, Retries]
    notification,  \* Scheduler.notification: NULL or "config"
    units,         \* the containers of the runtime
    tasks,         \* the tasks Run registers (result of listTasks)
    ctxDone,       \* the ambient context is cancelled
    runPc,         \* where Run is
    regIdx,        \* index of the next task Run registers
    engine,        \* the cron engine: "new", "started", "stopped"
    running,       \* running[i]: the int32 guard of task i
    pc,            \* pc[c]: where callback c is
    task,          \* task[c]: index of the task callback c was fired for (0: none)
    acquired,      \* acquired[c]: the compare-and-swap of c succeeded
    strategyCalls, \* strategyCalls[c]: calls of runService/execService made by c
    calls,         \* calls[c]: the replies of the runtime client to the calls of c's strategy, in order
    runErr,        \* runErr[c]: what runTask returned to c
    notifyCalls,   \* notifyCalls[c]: calls of Notify made by c
    payload,       \* payload[c]: the Payload c handed to Notify (Unset: none)
    left,          \* left[c]: Notify's local `left`
    attempts,      \* attempts[c]: calls of ht.notify made by Notify for c
    plan,          \* plan[c]: the endpoint fails the first plan[c] attempts of c's Notify, then answers 2xx
    timer,         \* timer[c]: time.After(Interval) of c's select: "off", "pending", "fired"
    notifyErr      \* notifyErr[c]: what Notify returned to c (Unset: not returned)

vars == << config, notification, units, tasks, ctxDone, runPc, regIdx, engine, running,
           pc, task, acquired, strategyCalls, calls, runErr, notifyCalls, payload,
           left, attempts, plan, timer, notifyErr >>

runVars == << runPc, regIdx, engine >>
setupVars == << config, notification, units, tasks >>
notifyVars == << notifyCalls, payload, left, attempts, plan, timer, notifyErr >>

TaskIds == 1..Len(tasks)

\* ------------------------------------------------------------------- Init
\* main applying WithNotification whatever the URL is.
UseNotificationAlways(url) == TRUE

\* main: WithNotification is applied only when a URL is configured.
UseNotification(url) == url # ""

\* Run and the callbacks before Run's first step.
InitRun ==
    /\ tasks = << >>
    /\ ctxDone = FALSE
    /\ runPc = "listTasks"
    /\ regIdx = 1
    /\ engine = "new"
    /\ running = << >>
    /\ pc = [c \in Callbacks |-> "none"]
    /\ task = [c \in Callbacks |-> 0]
    /\ acquired = [c \in Callbacks |-> FALSE]
    /\ strategyCalls = [c \in Callbacks |-> 0]
    /\ calls = [c \in Callbacks |-> << >>]
    /\ runErr = [c \in Callbacks |-> Unset]
    /\ notifyCalls = [c \in Callbacks |-> 0]
    /\ payload = [c \in Callbacks |-> Unset]
    /\ left = [c \in Callbacks |-> 0]
    /\ attempts = [c \in Callbacks |-> 0]
    /\ plan = [c \in Callbacks |-> 0]
    /\ timer = [c \in Callbacks |-> "off"]
    /\ notifyErr = [c \in Callbacks |-> Unset]

\* main with its configuration read (a retry count of at most r), the
\* notifier set accordingly, and the containers of the compose file.
InitConfig(r) ==
    /\ config \in [URL : URLs, Retries : 0..r]
    /\ notification = IF UseNotification(config.URL) THEN "config" ELSE NULL
    /\ units \in ComposeUnitLists
    /\ InitRun

Init == InitConfig(MaxRetries)

\* Discovery alone: any containers, no notification endpoint.
InitDiscovery ==
    /\ config = [URL |-> "", Retries |-> 0]
    /\ notification = NULL
    /\ units \in UnitLists
    /\ InitRun

\* ---------------------------------------------------------------- the signal
\* signal.NotifyContext: an interrupt cancels the ambient context, once.
Cancel ==
    /\ runPc \notin {"error", "returned"}
    /\ ~ctxDone
    /\ ctxDone' = TRUE
    /\ UNCHANGED << setupVars, runVars, running, pc, task, acquired, strategyCalls, calls, runErr, notifyVars >>

\* ----------------------------------------------------------------------- Run
\* sc.listTasks(ctx) fails in ContainerList: Run returns "list tasks".
ContainerListErr ==
    /\ runPc = "listTasks"
    /\ runPc' = "error"
    /\ UNCHANGED << setupVars, ctxDone, regIdx, engine, running, pc, task, acquired, strategyCalls, calls, runErr, notifyVars >>

\* sc.listTasks(ctx) returns: Run goes on to register the tasks, each with
\* a guard of its own, or returns the error of a command label.
ListTasks ==
    /\ runPc = "listTasks"
    /\ LET r == listTasks(units, Project)
       IN  IF r.err.isNil
           THEN /\ tasks' = r.tasks
                /\ running' = [i \in 1..Len(r.tasks) |-> 0]
                /\ runPc' = "register"
           ELSE /\ runPc' = "error"
                /\ UNCHANGED << tasks, running >>
    /\ UNCHANGED << config, notification, units, ctxDone, regIdx, engine, pc, task, acquired, strategyCalls, calls, runErr, notifyVars >>

InFlight == {c \in Callbacks : pc[c] \notin {"none", "done"}}
Fired == {c \in Callbacks : pc[c] # "none"}

\* A registration loop that skips a task whose expression is rejected
\* instead of returning the error.
AddFuncSkipsInvalid ==
    /\ runPc = "register"
    /\ regIdx <= Len(tasks)
    /\ regIdx' = regIdx + 1
    /\ UNCHANGED << setupVars, ctxDone, runPc, engine, running, pc, task, acquired, strategyCalls, calls, runErr, notifyVars >>

\* engine.AddFunc(t.Schedule, ...): the next task is registered, or its
\* expression is rejected and Run returns the error.
AddFunc ==
    /\ runPc = "register"
    /\ regIdx <= Len(tasks)
    /\ IF ParseStandard(tasks[regIdx].Schedule)
       THEN regIdx' = regIdx + 1 /\ runPc' = runPc
       ELSE regIdx' = regIdx /\ runPc' = "error"
    /\ UNCHANGED << setupVars, ctxDone, engine, running, pc, task, acquired, strategyCalls, calls, runErr, notifyVars >>

\* engine.Start(), then Run blocks in <-ctx.Done().
EngineStart ==
    /\ runPc = "register"
    /\ regIdx > Len(tasks)
    /\ engine' = "started"
    /\ runPc' = "ctxwait"
    /\ UNCHANGED << setupVars, ctxDone, regIdx, running, pc, task, acquired, strategyCalls, calls, runErr, notifyVars >>

\* <-ctx.Done() returns; engine.Stop() stops the engine's firing.
EngineStop ==
    /\ runPc = "ctxwait"
    /\ ctxDone
    /\ engine' = "stopped"
    /\ runPc' = "drain"
    /\ UNCHANGED << setupVars, ctxDone, regIdx, running, pc, task, acquired, strategyCalls, calls, runErr, notifyVars >>

\* Run returning right after engine.Stop(), without waiting for its Done().
RunReturnWithoutDrain ==
    /\ runPc = "drain"
    /\ runPc' = "returned"
    /\ UNCHANGED << setupVars, ctxDone, regIdx, engine, running, pc, task, acquired, strategyCalls, calls, runErr, notifyVars >>

\* <-engine.Stop().Done(): every started job has returned; Run returns nil.
RunReturn ==
    /\ runPc = "drain"
    /\ InFlight = {}
    /\ runPc' = "returned"
    /\ UNCHANGED << setupVars, ctxDone, regIdx, engine, running, pc, task, acquired, strategyCalls, calls, runErr, notifyVars >>

\* The started engine fires the trigger of task t: a new goroutine runs the
\* registered func, sc.runJob(ctx, running, t).
Fire(t) ==
    /\ engine = "started"
    /\ Cardinality(Fired) < MaxFirings
    /\ LET c == Cardinality(Fired) + 1 IN
        /\ pc' = [pc EXCEPT ![c] = "runJob"]
        /\ task' = [task EXCEPT ![c] = t]
    /\ UNCHANGED << setupVars, ctxDone, runVars, running, acquired, strategyCalls, calls, runErr, notifyVars >>

\* -------------------------------------------------------------------- runJob
\* time.Now() as read by callback c: `started` before runTask, `end` after.
\* Each read of the clock is a value of its own.
Now(c, v) == [callback |-> c, read |-> v]

\* The Payload runJob builds for callback c from the task and from what
\* runTask returned (errMessage is err.Error() when err is not nil, else "").
NewPayload(c, t, err) ==
    [ Project |-> Project, Service |-> t.Service, Container |-> t.Container,
      Schedule |-> t.Schedule, Started |-> Now(c, "started"), Finished |-> Now(c, "end"),
      Failed |-> (err # nil),
      Error |-> IF err # nil THEN Error(err) ELSE EmptyText ]

\* json.Marshal(message): every field under its json name, `error` left out
\* when empty (`json:"error,omitempty"`).
KeepEmpty(v) == FALSE
OmitEmpty(v) == v = EmptyText
JSONName ==
    [ project |-> "Project", service |-> "Service", container |-> "Container",
      schedule |-> "Schedule", started |-> "Started", finished |-> "Finished",
      failed |-> "Failed", error |-> "Error" ]
Marshal(p) ==
    [ k \in (IF OmitEmpty(p.Error) THEN DOMAIN JSONName \ {"error"} ELSE DOMAIN JSONName)
        |-> p[JSONName[k]] ]

\* The nil check of runJob inverted.
NotificationIsSet(n) == n # NULL

\* `if sc.notification == nil { return }`
NotificationIsNil(n) == n = NULL

\* runJob after runTask has returned err to callback c: without a notifier
\* the callback ends; otherwise Notify is entered with the Payload
\* (left := ht.Retries), and the endpoint will fail the first n attempts.
AfterRunTask(c, err, n) ==
    /\ runErr' = [runErr EXCEPT ![c] = err]
    /\ IF NotificationIsNil(notification)
       THEN /\ pc' = [pc EXCEPT ![c] = "done"]
            /\ UNCHANGED notifyVars
       ELSE /\ pc' = [pc EXCEPT ![c] = "notify"]
            /\ notifyCalls' = [notifyCalls EXCEPT ![c] = @ + 1]
            /\ payload' = [payload EXCEPT ![c] = NewPayload(c, tasks[task[c]], err)]
            /\ left' = [left EXCEPT ![c] = config.Retries]
            /\ plan' = [plan EXCEPT ![c] = n]
            /\ UNCHANGED << attempts, timer, notifyErr >>

EndpointPlans == 0..(config.Retries + 1)

\* ------------------------------------------------------------------- runTask
\* A test-and-set that does not test: the swap always succeeds.
SwapWithoutCompare(cur, old) == TRUE

\* atomic.CompareAndSwapInt32(running, old, new) succeeds iff *running = old.
CompareAndSwapInt32(cur, old) == cur = old

\* Which function runTask / execService dispatch to.
Strategy(t) ==
    IF Len(t.Command) = 0 THEN "runService"
    ELSE IF t.logging THEN "execAttachService" ELSE "execStartService"

\* The compare-and-swap succeeds: the guard is taken and the strategy entered.
RunTaskAcquire(c) ==
    /\ pc[c] = "runJob"
    /\ CompareAndSwapInt32(running[task[c]], 0)
    /\ running' = [running EXCEPT ![task[c]] = 1]
    /\ acquired' = [acquired EXCEPT ![c] = TRUE]
    /\ strategyCalls' = [strategyCalls EXCEPT ![c] = @ + 1]
    /\ pc' = [pc EXCEPT ![c] = Strategy(tasks[task[c]])]
    /\ UNCHANGED << setupVars, ctxDone, runVars, task, calls, runErr, notifyVars >>

\* runTask without the `return` of the failed compare-and-swap: the strategy
\* is entered although the guard was held.
RunTaskBusyFallsThrough(c) ==
    /\ pc[c] = "runJob"
    /\ ~CompareAndSwapInt32(running[task[c]], 0)
    /\ strategyCalls' = [strategyCalls EXCEPT ![c] = @ + 1]
    /\ pc' = [pc EXCEPT ![c] = Strategy(tasks[task[c]])]
    /\ UNCHANGED << setupVars, ctxDone, runVars, running, task, acquired, calls, runErr, notifyVars >>

\* The compare-and-swap fails: runTask returns "task is running" to runJob.
RunTaskBusy(c) ==
    /\ pc[c] = "runJob"
    /\ ~CompareAndSwapInt32(running[task[c]], 0)
    /\ \E n \in EndpointPlans : AfterRunTask(c, ErrTaskIsRunning, n)
    /\ UNCHANGED << setupVars, ctxDone, runVars, running, task, acquired, strategyCalls, calls >>

\* runTask without the deferred store: the guard is never reset.
NoDeferredStore(r, i) == r

\* A deferred store that resets the guard of every task, as if all tasks
\* shared one guard.
StoreEveryGuard(r, i) == [j \in DOMAIN r |-> 0]

\* `defer atomic.StoreInt32(running, 0)`
DeferredStore(r, i) == [r EXCEPT ![i] = 0]

\* The strategy returns err: runTask's deferred store runs, runJob goes on.
StrategyReturns(c, err) ==
    /\ running' = DeferredStore(running, task[c])
    /\ \E n \in EndpointPlans : AfterRunTask(c, err, n)
    /\ UNCHANGED << setupVars, ctxDone, runVars, task, acquired, strategyCalls >>

\* A call of the runtime client succeeds and the strategy goes on to `next`.
StrategyStep(c, next) ==
    /\ pc' = [pc EXCEPT ![c] = next]
    /\ UNCHANGED << setupVars, ctxDone, runVars, running, task, acquired, strategyCalls, runErr, notifyVars >>

Service(c) == tasks[task[c]].Service

\* What the runtime client answered to one call: the call's error ("" for
\* nil) and, for a call that reports one, the result (the wait's Error
\* message and StatusCode, the inspected ExitCode).  With ContainerExecStart
\* the code field records the exit code the started command ends with,
\* which that call does not report.
Reply(op, err, msg, code) == [op |-> op, err |-> err, Error |-> msg, StatusCode |-> code]
Replied(c, reply) == calls' = [calls EXCEPT ![c] = Append(@, reply)]

\* ---------------------------------------------------------------- runService
ContainerStartOK(c) ==
    /\ pc[c] = "runService"
    /\ StrategyStep(c, "ContainerWait")
    /\ Replied(c, Reply("ContainerStart", "", "", 0))

ContainerStartErr(c) ==
    /\ pc[c] = "runService"
    /\ \E w \in ClientErrors(ctxDone) :
        /\ StrategyReturns(c, Errorf("start service %s: %w", Service(c), 0, w))
        /\ Replied(c, Reply("ContainerStart", w, "", 0))

\* A runService that takes every result read from the wait's ok channel
\* for a success.
WaitResultIgnored(svc, res) == nil

\* What runService returns for a result res read from the wait's ok channel.
WaitResult(svc, res) ==
    IF res.Error # "" THEN Errorf("service %s: %s", svc, 0, res.Error)
    ELSE IF res.StatusCode # 0 THEN Errorf("service %s: status code %d", svc, res.StatusCode, "")
    ELSE nil

WaitResponses == [Error : {"", "OCI runtime error"}, StatusCode : StatusCodes]

ContainerWaitOK(c) ==
    /\ pc[c] = "ContainerWait"
    /\ \E res \in WaitResponses :
        /\ StrategyReturns(c, WaitResult(Service(c), res))
        /\ Replied(c, Reply("ContainerWait", "", res.Error, res.StatusCode))

ContainerWaitErr(c) ==
    /\ pc[c] = "ContainerWait"
    /\ \E w \in ClientErrors(ctxDone) :
        /\ StrategyReturns(c, Errorf("wait for service %s: %w", Service(c), 0, w))
        /\ Replied(c, Reply("ContainerWait", w, "", 0))

\* ----------------------------------------------------------- execStartService
ExecStartCreateOK(c) ==
    /\ pc[c] = "execStartService"
    /\ StrategyStep(c, "ContainerExecStart")
    /\ Replied(c, Reply("ContainerExecCreate", "", "", 0))

ExecStartCreateErr(c) ==
    /\ pc[c] = "execStartService"
    /\ \E w \in ClientErrors(ctxDone) :
        /\ StrategyReturns(c, Errorf("create exec for %s: %w", Service(c), 0, w))
        /\ Replied(c, Reply("ContainerExecCreate", w, "", 0))

ContainerExecStartOK(c) ==
    /\ pc[c] = "ContainerExecStart"
    /\ StrategyReturns(c, nil)
    /\ \E code \in StatusCodes : Replied(c, Reply("ContainerExecStart", "", "", code))

ContainerExecStartErr(c) ==
    /\ pc[c] = "ContainerExecStart"
    /\ \E w \in ClientErrors(ctxDone) :
        /\ StrategyReturns(c, Errorf("exec for %s: %w", Service(c), 0, w))
        /\ Replied(c, Reply("ContainerExecStart", w, "", 0))

\* ---------------------------------------------------------- execAttachService
ExecAttachCreateOK(c) ==
    /\ pc[c] = "execAttachService"
    /\ StrategyStep(c, "ContainerExecAttach")
    /\ Replied(c, Reply("ContainerExecCreate", "", "", 0))

ExecAttachCreateErr(c) ==
    /\ pc[c] = "execAttachService"
    /\ \E w \in ClientErrors(ctxDone) :
        /\ StrategyReturns(c, Errorf("create exec for %s: %w", Service(c), 0, w))
        /\ Replied(c, Reply("ContainerExecCreate", w, "", 0))

ContainerExecAttachOK(c) ==
    /\ pc[c] = "ContainerExecAttach"
    /\ StrategyStep(c, "Copy")
    /\ Replied(c, Reply("ContainerExecAttach", "", "", 0))

ContainerExecAttachErr(c) ==
    /\ pc[c] = "ContainerExecAttach"
    /\ \E w \in ClientErrors(ctxDone) :
        /\ StrategyReturns(c, Errorf("exec for %s: %w", Service(c), 0, w))
        /\ Replied(c, Reply("ContainerExecAttach", w, "", 0))

\* io.Copy(log.Writer(), attach.Reader) returns when the stream ends.
CopyEnds(c) ==
    /\ pc[c] = "Copy"
    /\ StrategyStep(c, "ContainerExecInspect")
    /\ Replied(c, Reply("io.Copy", "", "", 0))

\* An execAttachService that does not look at the inspected exit code.
InspectResultIgnored(code) == nil

\* What execAttachService returns for an inspected exit code.
InspectResult(code) ==
    IF code # 0 THEN Errorf("command returned non-zero code %d", "", code, "") ELSE nil

ContainerExecInspectOK(c) ==
    /\ pc[c] = "ContainerExecInspect"
    /\ \E code \in StatusCodes :
        /\ StrategyReturns(c, InspectResult(code))
        /\ Replied(c, Reply("ContainerExecInspect", "", "", code))

ContainerExecInspectErr(c) ==
    /\ pc[c] = "ContainerExecInspect"
    /\ \E w \in ClientErrors(ctxDone) :
        /\ StrategyReturns(c, Errorf("inspect exec for %s: %w", Service(c), 0, w))
        /\ Replied(c, Reply("ContainerExecInspect", w, "", 0))

\* -------------------------------------------------------------------- Notify
\* What http.DefaultClient.Do returns for one request: a response with an
\* HTTP status, or an error (connection failure, per-attempt timeout).
Response(code) == [err |-> FALSE, StatusCode |-> code]
NoResponse == [err |-> TRUE, StatusCode |-> 0]
FailResponses == {NoResponse, Response(404), Response(500)}
OKResponses == {Response(200), Response(204)}

\* The endpoint of callback c fails the first plan[c] requests, then answers 2xx.
Responses(c) == IF attempts[c] + 1 <= plan[c] THEN FailResponses ELSE OKResponses

\* Only 200 taken for a success.
StatusIsNot200(code) == code # 200

\* `res.StatusCode/100 != 2`
StatusIsFailure(code) == code \div 100 # 2

\* ht.notify(record) for the endpoint's answer.
notify(resp) ==
    IF resp.err THEN Errorf("execute request: %w", "", 0, "timeout")
    ELSE IF StatusIsFailure(resp.StatusCode) THEN Errorf("status: %d", "", resp.StatusCode, "")
    ELSE nil

\* The loop breaking one attempt early.
OneAttemptLeft(l) == l <= 1

\* `if left <= 0 { break }`
NoAttemptsLeft(l) == l <= 0

\* Notify returns err to runJob, which logs it and returns: the callback
\* ends.  A timer of time.After that has not fired is left as it is.
NotifyReturns(c, err) ==
    /\ notifyErr' = [notifyErr EXCEPT ![c] = err]
    /\ pc' = [pc EXCEPT ![c] = "done"]
    /\ UNCHANGED timer

\* A Notify that makes its attempt only while the context is not cancelled.
NotifyDeliveredUnlessCanceled(c) ==
    /\ pc[c] = "notify"
    /\ ~ctxDone
    /\ \E resp \in Responses(c) : notify(resp) = nil
    /\ attempts' = [attempts EXCEPT ![c] = @ + 1]
    /\ NotifyReturns(c, nil)
    /\ UNCHANGED << setupVars, ctxDone, runVars, running, task, acquired, strategyCalls, calls, runErr,
                    notifyCalls, payload, left, plan >>

\* An attempt is answered 2xx: Notify returns nil.
NotifyDelivered(c) ==
    /\ pc[c] = "notify"
    /\ \E resp \in Responses(c) : notify(resp) = nil
    /\ attempts' = [attempts EXCEPT ![c] = @ + 1]
    /\ NotifyReturns(c, nil)
    /\ UNCHANGED << setupVars, ctxDone, runVars, running, task, acquired, strategyCalls, calls, runErr,
                    notifyCalls, payload, left, plan >>

\* An attempt fails with no attempt left: the loop breaks.
NotifyExhausted(c) ==
    /\ pc[c] = "notify"
    /\ \E resp \in Responses(c) : notify(resp) # nil
    /\ NoAttemptsLeft(left[c])
    /\ attempts' = [attempts EXCEPT ![c] = @ + 1]
    /\ NotifyReturns(c, ErrAllAttemptsFailed)
    /\ UNCHANGED << setupVars, ctxDone, runVars, running, task, acquired, strategyCalls, calls, runErr,
                    notifyCalls, payload, left, plan >>

\* An attempt fails with attempts left: left--, then the select on
\* time.After(ht.Interval) and ctx.Done().
NotifyRetry(c) ==
    /\ pc[c] = "notify"
    /\ \E resp \in Responses(c) : notify(resp) # nil
    /\ ~NoAttemptsLeft(left[c])
    /\ attempts' = [attempts EXCEPT ![c] = @ + 1]
    /\ left' = [left EXCEPT ![c] = @ - 1]
    /\ pc' = [pc EXCEPT ![c] = "select"]
    /\ timer' = [timer EXCEPT ![c] = "pending"]
    /\ UNCHANGED << setupVars, ctxDone, runVars, running, task, acquired, strategyCalls, calls, runErr,
                    notifyCalls, payload, plan, notifyErr >>

\* A wait that does not select on ctx.Done() (a plain sleep).
CtxDoneIgnored(done) == FALSE

\* `case <-ctx.Done():` is ready iff the context is cancelled.
CtxDoneReady(done) == done

\* The interval elapses: the timer's channel becomes ready.  The interval is
\* positive and a select with a ready case does not block, so it elapses
\* only in a select whose ctx.Done() case is not ready.
TimerFires(c) ==
    /\ pc[c] = "select"
    /\ timer[c] = "pending"
    /\ ~CtxDoneReady(ctxDone)
    /\ timer' = [timer EXCEPT ![c] = "fired"]
    /\ UNCHANGED << setupVars, ctxDone, runVars, running, pc, task, acquired, strategyCalls, calls, runErr,
                    notifyCalls, payload, left, attempts, plan, notifyErr >>

\* `case <-time.After(ht.Interval):` the loop goes on to the next attempt.
SelectTimer(c) ==
    /\ pc[c] = "select"
    /\ timer[c] = "fired"
    /\ pc' = [pc EXCEPT ![c] = "notify"]
    /\ timer' = [timer EXCEPT ![c] = "off"]
    /\ UNCHANGED << setupVars, ctxDone, runVars, running, task, acquired, strategyCalls, calls, runErr,
                    notifyCalls, payload, left, attempts, plan, notifyErr >>


\* `case <-ctx.Done(): return ctx.Err()`
SelectCtxDone(c) ==
    /\ pc[c] = "select"
    /\ CtxDoneReady(ctxDone)
    /\ NotifyReturns(c, Canceled)
    /\ UNCHANGED << setupVars, ctxDone, runVars, running, task, acquired, strategyCalls, calls, runErr,
                    notifyCalls, payload, left, attempts, plan >>

\* --------------------------------------------------------- where a callback is
StrategyPcs ==
    { "runService", "ContainerWait", "execStartService", "ContainerExecStart",
      "execAttachService", "ContainerExecAttach", "Copy", "ContainerExecInspect" }
NotifyPcs == {"notify", "select"}
\* Callback c is inside runService / execService.
InStrategy(c) == pc[c] \in StrategyPcs
\* runTask has returned to callback c.
Returned(c) == pc[c] \in NotifyPcs \cup {"done"}
\* Notify has returned to callback c.
Notified(c) == pc[c] = "done" /\ notifyCalls[c] > 0
Executing(t) == {c \in Callbacks : task[c] = t /\ InStrategy(c)}

\* ---------------------------------------------------------------------- Spec
Next ==
    \/ ContainerListErr
    \/ ListTasks
    \/ Cancel
    \/ AddFunc
    \/ EngineStart
    \/ EngineStop
    \/ RunReturn
    \/ \E t \in TaskIds : Fire(t)
    \/ \E c \in Callbacks : RunTaskAcquire(c)
    \/ \E c \in Callbacks : RunTaskBusy(c)
    \/ \E c \in Callbacks : ContainerStartOK(c)
    \/ \E c \in Callbacks : ContainerStartErr(c)
    \/ \E c \in Callbacks : ContainerWaitOK(c)
    \/ \E c \in Callbacks : ContainerWaitErr(c)
    \/ \E c \in Callbacks : ExecStartCreateOK(c)
    \/ \E c \in Callbacks : ExecStartCreateErr(c)
    \/ \E c \in Callbacks : ContainerExecStartOK(c)
    \/ \E c \in Callbacks : ContainerExecStartErr(c)
    \/ \E c \in Callbacks : ExecAttachCreateOK(c)
    \/ \E c \in Callbacks : ExecAttachCreateErr(c)
    \/ \E c \in Callbacks : ContainerExecAttachOK(c)
    \/ \E c \in Callbacks : ContainerExecAttachErr(c)
    \/ \E c \in Callbacks : CopyEnds(c)
    \/ \E c \in Callbacks : ContainerExecInspectOK(c)
    \/ \E c \in Callbacks : ContainerExecInspectErr(c)
    \/ \E c \in Callbacks : NotifyDelivered(c)
    \/ \E c \in Callbacks : NotifyExhausted(c)
    \/ \E c \in Callbacks : NotifyRetry(c)
    \/ \E c \in Callbacks : TimerFires(c)
    \/ \E c \in Callbacks : SelectTimer(c)
    \/ \E c \in Callbacks : SelectCtxDone(c)

Spec == Init /\ [][Next]_vars

\* Discovery alone: Run's call of listTasks over any containers.
NextDiscovery ==
    \/ ContainerListErr
    \/ ListTasks
SpecDiscovery == InitDiscovery /\ [][NextDiscovery]_vars

\* =================================================================== claims

\* C1: single flight.  In every reachable state, for every task, at most one
\* callback is inside the task's execution strategy (runService or
\* execService entered from runTask), whatever the other callbacks of the
\* same task and of other tasks are doing.
C1_SingleFlight == \A t \in TaskIds : Cardinality(Executing(t)) <= 1

\* C1 witness: a callback of a task is inside the strategy while another
\* trigger of the same task has fired and is about to try the guard.
C1_Witness ==
    \E c, d \in Callbacks :
        /\ c # d /\ task[c] = task[d]
        /\ InStrategy(c) /\ pc[d] = "runJob"

\* The step in which a callback leaves runTask's compare-and-swap, and what
\* every state says of the calls of the strategy (parts of C2).
C2_AttemptStep ==
    \A c \in Callbacks :
        (pc[c] = "runJob" /\ pc'[c] # "runJob") =>
            IF running[task[c]] = 0
            THEN acquired'[c] /\ strategyCalls'[c] = 1 /\ pc'[c] \in StrategyPcs
                 /\ running'[task[c]] = 1
            ELSE ~acquired'[c] /\ strategyCalls'[c] = 0 /\ pc'[c] \notin StrategyPcs
                 /\ running' = running
C2_NotQueued ==
    \A c \in Callbacks :
        /\ strategyCalls[c] = (IF acquired[c] THEN 1 ELSE 0)
        /\ InStrategy(c) => acquired[c]
        /\ (pc[c] \in {"none", "runJob"}) => ~acquired[c]

\* C2: a trigger that attempts the guard while it is Idle (0) begins exactly
\* one execution of the strategy; a trigger that attempts it while it is
\* Running (1) begins none, then or later: a callback calls the strategy at
\* most once, and only if its compare-and-swap succeeded.
C2_IdleRunsBusyDrops == []C2_NotQueued /\ [][C2_AttemptStep]_vars

\* C2 witness: one trigger acquired the guard and is executing, another
\* trigger of the same task was dropped and is past runTask.
C2_Witness ==
    \E c, d \in Callbacks :
        /\ c # d /\ task[c] = task[d]
        /\ acquired[c] /\ InStrategy(c)
        /\ ~acquired[d] /\ Returned(d) /\ strategyCalls[d] = 0

\* Callback c was dropped: its compare-and-swap failed and runTask returned.
Dropped(c) == Returned(c) /\ ~acquired[c]

\* C3 (as stated): a trigger dropped because the guard was held produces no
\* Payload and no call of Notify, and is not reported as a failure.
C3_SkipIsSilent ==
    \A c \in Callbacks : Dropped(c) => notifyCalls[c] = 0 /\ attempts[c] = 0

\* C4: the guard is released by every return of the strategy.  The guard of
\* a task is 1 only while a callback of the task is inside the strategy, so
\* once an execution has returned (with nil or with any error) the guard is
\* 0 again, and a trigger of the task waiting at runTask can acquire it.
C4_GuardReleased ==
    /\ \A t \in TaskIds : (running[t] = 1) <=> (Executing(t) # {})
    /\ \A c \in Callbacks :
        (pc[c] = "runJob" /\ Executing(task[c]) = {}) => ENABLED RunTaskAcquire(c)

\* C4 witness: an execution returned an error, and a later trigger of the
\* same task has acquired the guard and is executing.
C4_Witness ==
    \E c, d \in Callbacks :
        /\ c # d /\ task[c] = task[d]
        /\ acquired[c] /\ Returned(c) /\ runErr[c] # nil
        /\ acquired[d] /\ InStrategy(d)

\* C5: one call of Notify makes at most Retries + 1 attempts, makes no
\* attempt after the first one answered 2xx, and, when the endpoint fails
\* the first N <= Retries attempts and then answers 2xx, returns nil after
\* exactly N + 1 attempts, unless it returned the cancellation of the
\* context from a wait between two attempts.
C5_RetryBound ==
    \A c \in Callbacks :
        notifyCalls[c] > 0 =>
            /\ attempts[c] <= config.Retries + 1
            /\ attempts[c] <= plan[c] + 1
            /\ (pc[c] = "done" /\ plan[c] <= config.Retries) =>
                \/ notifyErr[c] = nil /\ attempts[c] = plan[c] + 1
                \/ notifyErr[c] = Canceled /\ ctxDone /\ attempts[c] <= plan[c]

\* C5 witness: the endpoint failed N = Retries >= 1 attempts, then answered
\* 2xx, and Notify returned nil after N + 1 attempts.
C5_Witness ==
    \E c \in Callbacks :
        /\ Notified(c) /\ notifyErr[c] = nil
        /\ plan[c] = config.Retries /\ plan[c] >= 1
        /\ attempts[c] = plan[c] + 1

\* What Notify returns when every attempt fails, and what the step that
\* returns it leaves alone (parts of C6).
C6_Exhausted ==
    \A c \in Callbacks :
        (Notified(c) /\ plan[c] = config.Retries + 1) =>
            \/ notifyErr[c] = ErrAllAttemptsFailed /\ attempts[c] = config.Retries + 1
            \/ notifyErr[c] = Canceled /\ ctxDone /\ attempts[c] <= config.Retries
C6_OnlyLogged ==
    \A c \in Callbacks :
        /\ (pc[c] = "notify" /\ pc'[c] = "done" /\ notifyErr'[c] = ErrAllAttemptsFailed) =>
            /\ running' = running /\ runVars' = runVars /\ ctxDone' = ctxDone
            /\ runErr' = runErr /\ payload' = payload
            /\ \A d \in Callbacks \ {c} : pc'[d] = pc[d] /\ attempts'[d] = attempts[d]
        /\ pc[c] = "done" =>
            pc'[c] = "done" /\ attempts'[c] = attempts[c] /\ notifyCalls'[c] = notifyCalls[c]

\* C6: when all Retries + 1 attempts fail, Notify returns "all attempts
\* failed" after exactly Retries + 1 attempts (or the cancellation, when the
\* context was cancelled); the step that returns it changes no guard, no
\* other callback and nothing of Run, and a callback that has ended makes
\* no further attempt.
C6_ExhaustionIsLogged == []C6_Exhausted /\ [][C6_OnlyLogged]_vars

\* C6 witness: Notify returned "all attempts failed" after Retries + 1 >= 2
\* attempts with the context not cancelled, the engine still running and the
\* guard of the task free.
C6_Witness ==
    \E c \in Callbacks :
        /\ Notified(c) /\ notifyErr[c] = ErrAllAttemptsFailed
        /\ config.Retries >= 1 /\ attempts[c] = config.Retries + 1
        /\ ~ctxDone /\ engine = "started" /\ runPc = "ctxwait"
        /\ running[task[c]] = 0

\* The cancelled select can return, and is the only step of the callback
\* while the interval has not elapsed (parts of C7).
C7_Ready ==
    \A c \in Callbacks : (pc[c] = "select" /\ ctxDone) => ENABLED SelectCtxDone(c)
C7_Step ==
    \A c \in Callbacks :
        (pc[c] = "select" /\ timer[c] = "pending" /\ ctxDone /\ pc'[c] # "select") =>
            /\ pc'[c] = "done" /\ notifyErr'[c] = Canceled
            /\ attempts'[c] = attempts[c]

\* C7: a Notify that waits in the select with the context cancelled can
\* return at once, and while the interval has not elapsed the only step it
\* takes is to return the context's error, with no further attempt.
C7_CancelAbortsWait == []C7_Ready /\ [][C7_Step]_vars

\* C7 witness: Notify returned the cancellation while its interval had not
\* elapsed, with attempts still left.
C7_Witness ==
    \E c \in Callbacks :
        /\ Notified(c) /\ notifyErr[c] = Canceled /\ timer[c] = "pending"
        /\ attempts[c] <= plan[c] /\ left[c] >= 0 /\ attempts[c] <= config.Retries

\* C8: in the serialization of every Payload handed to Notify the `error`
\* field is present iff `failed` is true, and a failed Payload carries a
\* non-empty error text.
C8_ErrorIffFailed ==
    \A c \in Callbacks :
        notifyCalls[c] > 0 =>
            LET json == Marshal(payload[c]) IN
            /\ ("error" \in DOMAIN json) <=> json["failed"]
            /\ json["failed"] => json["error"] # EmptyText

\* C8 witness: one Payload of a failed run (with the error field) and one
\* of a successful run (without it).
C8_Witness ==
    \E c, d \in Callbacks :
        /\ notifyCalls[c] > 0 /\ payload[c].Failed /\ "error" \in DOMAIN Marshal(payload[c])
        /\ notifyCalls[d] > 0 /\ ~payload[d].Failed /\ "error" \notin DOMAIN Marshal(payload[d])

\* C9: with a notifier configured, a callback calls Notify at most once and
\* only after runTask has returned; every execution whose strategy returned
\* has exactly one Notify call, with a Payload of that execution: its
\* task's service, container and schedule, its own start and end times, and
\* failed = (the strategy returned an error), whatever Notify returns.
C9_OneNotifyPerExecution ==
    notification # NULL =>
        \A c \in Callbacks :
            /\ notifyCalls[c] <= 1
            /\ ~Returned(c) => notifyCalls[c] = 0
            /\ (acquired[c] /\ Returned(c)) =>
                /\ notifyCalls[c] = 1
                /\ payload[c].Project = Project
                /\ payload[c].Service = tasks[task[c]].Service
                /\ payload[c].Container = tasks[task[c]].Container
                /\ payload[c].Schedule = tasks[task[c]].Schedule
                /\ payload[c].Started = Now(c, "started")
                /\ payload[c].Finished = Now(c, "end")
                /\ payload[c].Failed = (runErr[c] # nil)

\* C9 witness: an execution succeeded, its notification failed, and its
\* Payload says failed = false.
C9_Witness ==
    \E c \in Callbacks :
        /\ acquired[c] /\ Notified(c) /\ runErr[c] = nil
        /\ notifyErr[c] = ErrAllAttemptsFailed
        /\ ~payload[c].Failed

\* C10: with no notification URL configured, no callback ever calls Notify
\* or makes a delivery attempt; a callback ends when runTask returns, and
\* the guard is held only while an execution is inside the strategy.
C10_NoURLNoNotify ==
    config.URL = "" =>
        /\ \A c \in Callbacks :
            /\ notifyCalls[c] = 0 /\ attempts[c] = 0
            /\ pc[c] \notin NotifyPcs
        /\ \A t \in TaskIds : (running[t] = 1) => (Executing(t) # {})

\* C10 witness: with no URL, an execution acquired the guard, ran its
\* strategy to return and ended, and the guard is free again.
C10_Witness ==
    /\ config.URL = ""
    /\ \E c \in Callbacks :
        /\ acquired[c] /\ pc[c] = "done" /\ strategyCalls[c] = 1
        /\ running[task[c]] = 0

\* Some task of the list has a schedule expression the engine rejects.
SomeScheduleInvalid == \E i \in TaskIds : ~ParseStandard(tasks[i].Schedule)

\* C11: all-or-nothing registration.  When the schedule of any task is
\* invalid, Run is registering or has returned the error "add service";
\* the engine is never started and no callback exists: no trigger fires, no
\* strategy is called and no Notify is made for any task, also not for the
\* tasks registered before the invalid one was reached.
C11_AllOrNothing ==
    SomeScheduleInvalid =>
        /\ engine = "new"
        /\ runPc \in {"register", "error"}
        /\ runPc = "register" => \A i \in 1..(regIdx - 1) : ParseStandard(tasks[i].Schedule)
        /\ \A c \in Callbacks :
            pc[c] = "none" /\ strategyCalls[c] = 0 /\ notifyCalls[c] = 0 /\ attempts[c] = 0
        /\ \A t \in TaskIds : running[t] = 0

\* C11 witness: the first task was registered, the second was rejected and
\* Run has returned the error with the engine not started.
C11_Witness ==
    /\ runPc = "error" /\ regIdx = 2 /\ engine = "new"
    /\ ParseStandard(tasks[1].Schedule) /\ ~ParseStandard(tasks[2].Schedule)

\* What every state says of a Run that has stopped the engine or returned,
\* and what a step may do once the engine is stopped (parts of C12).
C12_Drained ==
    /\ engine = "started" /\ ~ctxDone => runPc = "ctxwait"
    /\ engine = "stopped" => ctxDone /\ runPc \in {"drain", "returned"}
    /\ runPc = "returned" =>
        /\ ctxDone /\ engine = "stopped"
        /\ \A c \in Callbacks : pc[c] \in {"none", "done"}
        /\ \A t \in TaskIds : running[t] = 0
C12_NoFiringAfterStop ==
    /\ engine = "stopped" => Fired' = Fired /\ engine' = "stopped"
    /\ runPc = "returned" => pc' = pc /\ attempts' = attempts /\ runPc' = "returned"

\* C12: shutdown drain.  Once the engine is started Run stays blocked until
\* the context is cancelled; after engine.Stop() no new trigger fires; Run
\* returns only when no callback is in flight (each has left its strategy
\* and its Notify), and nothing runs after it has returned.
C12_ShutdownDrain == []C12_Drained /\ [][C12_NoFiringAfterStop]_vars

\* C12 witness: the engine is stopped and Run waits for the drain while one
\* callback is inside its strategy and another is inside Notify.
C12_Witness ==
    /\ runPc = "drain" /\ engine = "stopped"
    /\ \E c, d \in Callbacks : InStrategy(c) /\ pc[d] \in NotifyPcs

\* The calls in which a strategy waits for its workload: the wait on the
\* started container, the exec start, and the copy of the attached exec's
\* output.
BlockingPcs == {"ContainerWait", "ContainerExecStart", "Copy"}

\* A step by which callback c leaves its strategy with the context's error.
ReturnsCanceled(c) ==
    /\ Next
    /\ pc'[c] \in NotifyPcs \cup {"done"}
    /\ runErr'[c].text.cause = "context canceled"

\* C13: both strategies respect cancellation.  Whenever the context is
\* cancelled while a callback is blocked in a wait of its strategy (unit
\* wait, exec start, output streaming of an attached exec), the call can
\* return at once with the cancellation error.
C13_StrategiesRespectCancel ==
    \A c \in Callbacks :
        pc[c] \in BlockingPcs /\ ctxDone => ENABLED ReturnsCanceled(c)

\* The same statement without the output copy; it holds of runService and
\* execStartService.
C13_ContextCallsRespectCancel ==
    \A c \in Callbacks :
        pc[c] \in BlockingPcs \ {"Copy"} /\ ctxDone => ENABLED ReturnsCanceled(c)

\* Parts of C14: a trigger of a task none of whose callbacks is in a
\* strategy can take the guard, whatever the callbacks of other tasks do; a
\* guard changes only in a step of one callback of its own task; a step of
\* a callback leaves Run and the engine where they are.
C14_OwnGuardFree ==
    \A c \in Callbacks :
        pc[c] = "runJob" /\ (\A d \in Callbacks : InStrategy(d) => task[d] # task[c])
            => running[task[c]] = 0 /\ ENABLED RunTaskAcquire(c)
C14_Step ==
    /\ \A t \in TaskIds :
        running'[t] # running[t] =>
            \E c \in Callbacks :
                /\ task[c] = t /\ pc'[c] # pc[c]
                /\ \A d \in Callbacks \ {c} : pc'[d] = pc[d]
    /\ (\E c \in Callbacks : pc[c] # "none" /\ pc'[c] # pc[c]) => runVars' = runVars

\* C14: task isolation.  A task that is blocked in its strategy or in its
\* notification retries, or whose run fails, never keeps a trigger of
\* another task from taking that task's own guard and executing; the guard
\* of a task is changed only by callbacks of that task; no failure of a run
\* or of a notification makes Run return or stops the engine.
C14_TaskIsolation == []C14_OwnGuardFree /\ [][C14_Step]_vars

\* C14 witness: while the engine runs, a callback of one task waits in the
\* retry sleep of the notification of a failed run, and a callback of the
\* other task has taken its guard and is executing.
C14_Witness ==
    /\ engine = "started" /\ runPc = "ctxwait"
    /\ \E c, d \in Callbacks :
        /\ task[c] # task[d]
        /\ pc[c] = "select" /\ ~runErr[c].isNil
        /\ InStrategy(d) /\ acquired[d]

\* The callbacks that took the guard of a task of strategy f and have come
\* back from the strategy.
Ran(f) ==
    {c \in Callbacks : Returned(c) /\ acquired[c] /\ Strategy(tasks[task[c]]) = f}
\* The operations of the replies a callback got, in order.
Ops(c) == [i \in 1..Len(calls[c]) |-> calls[c][i].op]
\* The first n elements of a sequence.
Prefix(seq, n) == SubSeq(seq, 1, n)

\* C15: result of the run strategy.  A run of a task with no command
\* succeeds iff ContainerStart succeeded and the wait reported a result with
\* no error and status code 0.  A failed start, an error on the wait's
\* error channel, a result with a runtime error and a non-zero status code
\* each give an error that names the cause (the status code for a non-zero
\* exit), and after a failed start no wait is made.
C15_RunStrategyResult ==
    \A c \in Ran("runService") :
        LET k == calls[c]
            e == runErr[c]
            svc == Service(c)
        IN  /\ Len(k) \in {1, 2}
            /\ k[1].op = "ContainerStart"
            /\ k[1].err # "" <=> Len(k) = 1
            /\ Len(k) = 2 => k[2].op = "ContainerWait"
            /\ e.isNil <=>
                /\ Len(k) = 2 /\ k[1].err = ""
                /\ k[2].err = "" /\ k[2].Error = "" /\ k[2].StatusCode = 0
            /\ k[1].err # "" => e = Errorf("start service %s: %w", svc, 0, k[1].err)
            /\ Len(k) = 2 /\ k[2].err # "" =>
                e = Errorf("wait for service %s: %w", svc, 0, k[2].err)
            /\ Len(k) = 2 /\ k[2].err = "" /\ k[2].Error # "" =>
                e = Errorf("service %s: %s", svc, 0, k[2].Error)
            /\ Len(k) = 2 /\ k[2].err = "" /\ k[2].Error = "" /\ k[2].StatusCode # 0 =>
                e = Errorf("service %s: status code %d", svc, k[2].StatusCode, "")

\* C15 witness: a run whose container was started and whose wait reported
\* status code 1 without error has failed, the code in its error.
C15_Witness ==
    \E c \in Ran("runService") :
        /\ Len(calls[c]) = 2
        /\ calls[c][2].err = "" /\ calls[c][2].Error = "" /\ calls[c][2].StatusCode = 1
        /\ ~runErr[c].isNil /\ runErr[c].text.code = 1

\* C16: result of the exec strategy.  Without logging a run succeeds iff
\* ContainerExecCreate and ContainerExecStart both succeeded, whatever the
\* exit code of the command.  With logging the output is copied until the
\* stream ends and the exec is inspected after that; the run succeeds iff
\* create, attach and inspect succeeded and the exit code is 0, a non-zero
\* exit code is in the error, and no run whose attach succeeded comes back
\* from the strategy before the copy has ended.
C16_ExecStrategyResult ==
    /\ \A c \in Ran("execStartService") :
        LET k == calls[c]
        IN  /\ Len(k) \in {1, 2}
            /\ Ops(c) = Prefix(<< "ContainerExecCreate", "ContainerExecStart" >>, Len(k))
            /\ k[1].err # "" <=> Len(k) = 1
            /\ runErr[c].isNil <=> \A i \in 1..2 : i <= Len(k) /\ k[i].err = ""
    /\ \A c \in Ran("execAttachService") :
        LET k == calls[c]
            e == runErr[c]
        IN  /\ Len(k) \in {1, 2, 4}
            /\ Ops(c) = Prefix(<< "ContainerExecCreate", "ContainerExecAttach", "io.Copy", "ContainerExecInspect" >>, Len(k))
            /\ k[1].err # "" <=> Len(k) = 1
            /\ Len(k) = 2 <=> Len(k) >= 2 /\ k[2].err # ""
            /\ e.isNil <=>
                /\ Len(k) = 4 /\ \A i \in 1..4 : k[i].err = ""
                /\ k[4].StatusCode = 0
            /\ Len(k) = 4 /\ k[4].err = "" /\ k[4].StatusCode # 0 =>
                e = Errorf("command returned non-zero code %d", "", k[4].StatusCode, "")
            /\ Len(k) = 4 /\ k[4].err # "" =>
                e = Errorf("inspect exec for %s: %w", Service(c), 0, k[4].err)

\* C16 witness: a run with logging whose output was copied to the end and
\* whose exec was then inspected with exit code 1 has failed, the code in
\* its error.
C16_Witness ==
    \E c \in Ran("execAttachService") :
        /\ Len(calls[c]) = 4
        /\ calls[c][3].op = "io.Copy"
        /\ calls[c][4].err = "" /\ calls[c][4].StatusCode = 1
        /\ ~runErr[c].isNil /\ runErr[c].text.code = 1

\* A run without logging whose command ended with exit code 1 has
\* succeeded.
C16_SilentNonZeroSucceeds ==
    \E c \in Ran("execStartService") :
        /\ Len(calls[c]) = 2
        /\ calls[c][2].err = "" /\ calls[c][2].StatusCode = 1
        /\ runErr[c].isNil

\* ------------------------------------------------------- discovery (C17)
\* Container u carries the label key.
Has(u, key) == key \in DOMAIN u.Labels
\* The command label of u is set and does not parse.
Malformed(u) ==
    Lookup(u.Labels, commandLabel) # "" /\ Split(Runes(Lookup(u.Labels, commandLabel))).err
\* Task t is the Task of container u: its ID, its service and schedule
\* labels, and no logging unless the logs label is a boolean.
TaskOf(t, u) ==
    /\ t.Container = u.ID
    /\ t.Service = u.Labels[composeServiceLabel]
    /\ t.Schedule = u.Labels[schedulerLabel]
    /\ ~Has(u, logsLabel) \/ ParseBool(u.Labels[logsLabel]).err => ~t.logging
\* Discovery over the containers `matching`: it has failed with no task, or
\* no command label of theirs is malformed and the tasks are theirs, one
\* each, in order.
Discovered(matching) ==
    /\ runPc # "register" => tasks = << >>
    /\ (\E i \in 1..Len(matching) : Malformed(matching[i])) => runPc # "register"
    /\ runPc = "register" =>
        /\ Len(tasks) = Len(matching)
        /\ \A i \in 1..Len(matching) : TaskOf(tasks[i], matching[i])

\* The containers C17 speaks of as stated, with a schedule label that is
\* not empty, and the containers with a schedule label of any value.
WithSchedule(u) ==
    /\ Has(u, composeProjectLabel) /\ u.Labels[composeProjectLabel] = Project
    /\ Has(u, composeServiceLabel)
    /\ Has(u, schedulerLabel)
WithNonEmptySchedule(u) == WithSchedule(u) /\ u.Labels[schedulerLabel] # ""

\* The run strategy iff the command label is absent or empty, as stated,
\* and iff it is absent or holds no word (empty or blanks only).
RunIffNoCommand(matching) ==
    runPc = "register" /\ Len(tasks) = Len(matching) =>
        \A i \in 1..Len(matching) :
            Strategy(tasks[i]) = "runService" <=> Lookup(matching[i].Labels, commandLabel) = ""
RunIffNoWord(matching) ==
    runPc = "register" /\ Len(tasks) = Len(matching) =>
        \A i \in 1..Len(matching) :
            Strategy(tasks[i]) = "runService" <=>
                Split(Runes(Lookup(matching[i].Labels, commandLabel))).words = << >>

\* C17 as stated: listTasks returns one Task per container with the
\* project label equal to the project, a service label and a non-empty
\* schedule label, and none for any other container; a Task uses the run
\* strategy iff its command label is absent or empty; logging is off when
\* the logs label is absent or unparsable; a malformed command label on a
\* matching container fails discovery with no tasks.
C17_DiscoveryAsStated ==
    LET matching == SelectSeq(units, WithNonEmptySchedule)
    IN  Discovered(matching) /\ RunIffNoCommand(matching)

\* The strategy part of C17 as stated, over the containers that do yield
\* a Task.
C17_RunIffEmptyAsStated == RunIffNoCommand(SelectSeq(units, WithSchedule))

\* C17 (amended): listTasks returns one Task per container with the project
\* label equal to the project, a service label and a schedule label of any
\* value, the empty one included, and none for any other container; a Task
\* uses the run strategy iff its command label is absent or holds no word
\* (empty or blanks only); logging is off when the logs label is absent or
\* unparsable; a malformed command label on a matching container fails
\* discovery with no tasks.
C17_Discovery ==
    LET matching == SelectSeq(units, WithSchedule)
    IN  Discovered(matching) /\ RunIffNoWord(matching)

\* C17 witness: discovery has returned a Task with an empty schedule and a
\* Task of the run strategy for a container whose command label is a blank.
C17_Witness ==
    /\ runPc = "register"
    /\ \E i \in TaskIds : tasks[i].Schedule = ""
    /\ \E j \in 1..Len(units) : \E i \in TaskIds :
        /\ Lookup(units[j].Labels, commandLabel) = " "
        /\ tasks[i].Container = units[j].ID
        /\ Strategy(tasks[i]) = "runService"

\* What Notify returns when its only attempt is its first: nil if the
\* endpoint answers 2xx, else the context's error if retries were
\* configured and "all attempts failed" if none was.
OnlyAttemptResult(c) ==
    IF plan[c] = 0 THEN nil
    ELSE IF config.Retries > 0 THEN Canceled
    ELSE ErrAllAttemptsFailed

\* Parts of C18.  An attempt of a Notify in progress can always be made
\* and end, cancelled context or not.  A Notify for a run that ended with
\* the context's error makes one attempt and returns OnlyAttemptResult.
C18_AttemptNotGated ==
    \A c \in Callbacks :
        pc[c] = "notify" =>
            ENABLED (NotifyDelivered(c) \/ NotifyExhausted(c) \/ NotifyRetry(c))
C18_CancelledRunNotified ==
    \A c \in Callbacks :
        notifyCalls[c] = 1 /\ runErr[c].text.cause = "context canceled" =>
            /\ ctxDone
            /\ attempts[c] <= 1
            /\ pc[c] = "select" => attempts[c] = 1 /\ timer[c] = "pending"
            /\ pc[c] = "done" => attempts[c] = 1 /\ notifyErr[c] = OnlyAttemptResult(c)
\* The steps of a Notify whose first attempt is made with the context
\* cancelled: the attempt is made; it ends Notify (nil, or "all attempts
\* failed" when no retry is configured) or leads to the select, whose timer
\* does not fire and which returns the context's error with no other
\* attempt.
C18_Step ==
    /\ ctxDone => ctxDone'
    /\ \A c \in Callbacks :
        /\ ctxDone /\ pc[c] = "notify" /\ attempts[c] = 0 /\ pc'[c] # "notify" =>
            /\ attempts'[c] = 1
            /\ \/ pc'[c] = "done" /\ plan[c] = 0 /\ notifyErr'[c] = nil
               \/ pc'[c] = "done" /\ plan[c] > 0 /\ config.Retries = 0 /\ notifyErr'[c] = ErrAllAttemptsFailed
               \/ pc'[c] = "select" /\ plan[c] > 0 /\ config.Retries > 0 /\ timer'[c] = "pending"
        /\ ctxDone /\ pc[c] = "select" /\ timer[c] = "pending" =>
            /\ timer'[c] = "pending" /\ attempts'[c] = attempts[c]
            /\ pc'[c] # "select" => pc'[c] = "done" /\ notifyErr'[c] = Canceled

\* C18: Notify does not consult the context before or during an attempt.
\* Invoked with the context already cancelled (as for a run that ends with
\* the context's error) and a positive interval, it makes exactly one
\* attempt and returns nil if that is answered 2xx, the context's error if
\* it fails and retries remain, "all attempts failed" if it fails and the
\* retry count is 0.
C18_OneAttemptWhenCancelled ==
    [](C18_AttemptNotGated /\ C18_CancelledRunNotified) /\ [][C18_Step]_vars

\* C18 witness: a run ended with the context's error, its Notify made one
\* attempt, which failed, and returned the context's error.
C18_Witness ==
    \E c \in Callbacks :
        /\ Notified(c) /\ runErr[c].text.cause = "context canceled"
        /\ attempts[c] = 1 /\ plan[c] > 0
        /\ notifyErr[c] = Canceled

\* Parts of C19.  The guard of a task is 1 exactly while a callback of the
\* task that took it is inside the strategy.  While a callback of a task
\* is in Notify and none is in the strategy, a trigger of the task takes
\* the guard and is not dropped.  A guard goes to 1 only by a callback
\* entering the strategy from runTask and to 0 only by a callback leaving
\* the strategy.
C19_Held ==
    /\ \A t \in TaskIds :
        running[t] = 1 <=> \E c \in Callbacks : task[c] = t /\ acquired[c] /\ InStrategy(c)
    /\ \A c \in Callbacks : pc[c] \in NotifyPcs /\ Executing(task[c]) = {} => running[task[c]] = 0
C19_FreeDuringNotify ==
    \A c, d \in Callbacks :
        /\ c # d /\ task[c] = task[d]
        /\ pc[c] \in NotifyPcs /\ pc[d] = "runJob" /\ Executing(task[d]) = {}
        => ENABLED RunTaskAcquire(d) /\ ~ENABLED RunTaskBusy(d)
C19_Step ==
    \A t \in TaskIds :
        running'[t] # running[t] =>
            \E c \in Callbacks :
                /\ task[c] = t
                /\ \/ running'[t] = 1 /\ pc[c] = "runJob" /\ pc'[c] \in StrategyPcs /\ acquired'[c]
                   \/ running'[t] = 0 /\ InStrategy(c) /\ acquired[c] /\ pc'[c] \in NotifyPcs \cup {"done"}

\* C19: the guard of a task is held exactly while one callback of the task
\* is between its successful compare-and-swap and the return of its
\* strategy, never while a callback delivers its notification; so a trigger
\* of the task fired while the notification of the previous run is still
\* attempted or retried takes the guard and executes, and several Notify
\* calls of one task can be in flight together.
C19_GuardSpansStrategyOnly == [](C19_Held /\ C19_FreeDuringNotify) /\ [][C19_Step]_vars

\* C19 witness: a callback that ran a task waits in the retry sleep of its
\* Notify while another callback of the same task has taken the guard and
\* is in the strategy.
C19_Witness ==
    \E c, d \in Callbacks :
        /\ c # d /\ task[c] = task[d]
        /\ acquired[c] /\ pc[c] = "select" /\ attempts[c] >= 1
        /\ acquired[d] /\ InStrategy(d) /\ running[task[d]] = 1

\* Two Notify calls of the same task in flight at once, each for a run
\* that took the guard.
C19_TwoNotifyInFlight ==
    \E c, d \in Callbacks :
        /\ c # d /\ task[c] = task[d]
        /\ acquired[c] /\ pc[c] \in NotifyPcs
        /\ acquired[d] /\ pc[d] \in NotifyPcs

\* ------------------------------------------------------------ liveness (C20)
\* The steps of Run and of the callbacks: every step but the firing of a
\* trigger and the interrupt.
Progress ==
    \/ ContainerListErr
    \/ ListTasks
    \/ AddFunc
    \/ EngineStart
    \/ EngineStop
    \/ RunReturn
    \/ \E c \in Callbacks :
        \/ RunTaskAcquire(c) \/ RunTaskBusy(c)
        \/ ContainerStartOK(c) \/ ContainerStartErr(c)
        \/ ContainerWaitOK(c) \/ ContainerWaitErr(c)
        \/ ExecStartCreateOK(c) \/ ExecStartCreateErr(c)
        \/ ContainerExecStartOK(c) \/ ContainerExecStartErr(c)
        \/ ExecAttachCreateOK(c) \/ ExecAttachCreateErr(c)
        \/ ContainerExecAttachOK(c) \/ ContainerExecAttachErr(c)
        \/ CopyEnds(c)
        \/ ContainerExecInspectOK(c) \/ ContainerExecInspectErr(c)
        \/ NotifyDelivered(c) \/ NotifyExhausted(c) \/ NotifyRetry(c)
        \/ TimerFires(c) \/ SelectTimer(c) \/ SelectCtxDone(c)

\* Fair scheduling: a goroutine that can take a step takes one; a call of
\* the runtime client, the output copy and an HTTP attempt end; a sleep
\* ends.  Triggers and the interrupt need not happen.
InitLive == InitConfig(MaxLiveRetries)
LiveSpec == InitLive /\ [][Next]_vars /\ WF_vars(Progress)

\* What a step may do once the context is cancelled (part of C20): an
\* attempt made then leaves its Notify returned or in a select whose timer
\* is pending; a pending timer does not fire; a select with a pending
\* timer makes no attempt and is left only by returning.
C20_Step ==
    ctxDone =>
        \A c \in Callbacks :
            /\ attempts'[c] > attempts[c] =>
                /\ attempts'[c] = attempts[c] + 1
                /\ pc'[c] = "done" \/ (pc'[c] = "select" /\ timer'[c] = "pending")
            /\ timer[c] = "pending" => timer'[c] = "pending"
            /\ pc[c] = "select" /\ timer[c] = "pending" =>
                attempts'[c] = attempts[c] /\ pc'[c] \in {"select", "done"}

\* C20: under fair scheduling, with every client call, output copy and
\* HTTP attempt ending, Run returns after the context is cancelled: every
\* callback in flight finishes, a Notify call makes at most one more
\* attempt once the context is cancelled, and no callback waits for a
\* retry interval to elapse after the cancellation.
C20_RunReturnsAfterCancel ==
    /\ ctxDone ~> (runPc \in {"returned", "error"} /\ InFlight = {})
    /\ [][C20_Step]_vars

\* C20 witness: Run has returned after a callback left the retry sleep of
\* its Notify with the context's error, the interval not elapsed, and
\* another callback made a delivery attempt of its own.
C20_Witness ==
    /\ runPc = "returned"
    /\ \E c, d \in Callbacks :
        /\ c # d
        /\ pc[c] = "done" /\ notifyCalls[c] = 1 /\ notifyErr[c] = Canceled /\ timer[c] = "pending"
        /\ pc[d] = "done" /\ attempts[d] >= 1

====
